---- MODULE Spec2Model ----
(***************************************************************************)
(* A model of the three XMLTV generators of the repository:                *)
(*   scripts/gracenote.py, scripts/gracenote_to_xmltv.py (grid pipeline)   *)
(*   service/fuel/main.py                                 (EPG pipeline)   *)
(* One run of one script is a behaviour: Init picks the script and its     *)
(* channel list, one action per iteration of the script's channel loop     *)
(* fetches and parses, and a last action builds and serialises the         *)
(* document.                                                               *)
(***************************************************************************)
EXTENDS Integers, Sequences, FiniteSets, TLC

VARIABLES script, channels, pc, idx, all_programs, all_channels_data,
          program_data, doc, error, upstream, fetched, date, channel_programs

vars == <<script, channels, pc, idx, all_programs, all_channels_data,
          program_data, doc, error, upstream, fetched, date, channel_programs>>

(***************************************************************************)
(* Bounds of the model.                                                    *)
(***************************************************************************)
\* the channels of a run, and the upstream entries (grid entries, XML
\* fragments) a run receives in all
MaxChannels == 2
MaxEntries == 2

(***************************************************************************)
(* Python values.  A value carries its type, so that None, "", 0 and a     *)
(* missing key stay distinct and truthiness is computed as Python does.    *)
(***************************************************************************)
PyNone == [ty |-> "None"]
PyStr(s) == [ty |-> "str", v |-> s]
PyInt(n) == [ty |-> "int", v |-> n]
PyList(s) == [ty |-> "list", v |-> s]
PyDict(d) == [ty |-> "dict", v |-> d]

\* the result of an f-string: its literal and interpolated parts, in order
FStr(parts) == [ty |-> "str", parts |-> parts]
\* an integer too large for a platform time_t
PyBigInt(name) == [ty |-> "int", big |-> name]

IsNone(x) == x.ty = "None"
IsStr(x) == x.ty = "str"

\* bool(x)
Truthy(x) ==
    CASE x.ty = "None" -> FALSE
      [] x.ty = "str" -> IF "parts" \in DOMAIN x THEN TRUE ELSE x.v # ""
      [] x.ty = "int" -> IF "big" \in DOMAIN x THEN TRUE ELSE x.v # 0
      [] x.ty = "list" -> x.v # <<>>
      [] x.ty = "dict" -> DOMAIN x.v # {}
      [] OTHER -> TRUE

\* a or b
Or(a, b) == IF Truthy(a) THEN a ELSE b

\* d.get(k) and d.get(k, default) on the mapping d of a dict
Get(d, k) == IF k \in DOMAIN d THEN d[k] ELSE PyNone
GetD(d, k, default) == IF k \in DOMAIN d THEN d[k] ELSE default

\* the decimal digits of the integers the inputs use
IntText(n) ==
    CASE n = 0 -> "0" [] n = 1 -> "1" [] n = 2 -> "2" [] n = 5 -> "5"
      [] OTHER -> "<int>"

\* the text an f-string interpolates for {x}
Text(x) ==
    CASE x.ty = "None" -> "None"
      [] x.ty = "str" /\ "v" \in DOMAIN x -> x.v
      [] x.ty = "int" /\ "v" \in DOMAIN x -> IntText(x.v)
      [] OTHER -> "<repr>"

\* str(x): a str is returned as it is
Str(x) == IF x.ty = "str" THEN x ELSE PyStr(Text(x))

(***************************************************************************)
(* Time.  Epoch seconds are formatted by strftime("%Y%m%d%H%M%S") in the   *)
(* machine's local time; the table is the one of a machine on UTC.         *)
(***************************************************************************)
Epochs == {0, 3600, 1704100800, 1704104400}

StrfTime(t) ==
    CASE t = 0 -> "19700101000000"
      [] t = 3600 -> "19700101010000"
      [] t = 1704100800 -> "20240101092000"
      [] t = 1704104400 -> "20240101102000"

\* datetime.fromtimestamp(x): the exception it raises ("none": it returns)
FromTimestampExc(x) ==
    CASE x.ty = "int" /\ "big" \in DOMAIN x -> "OverflowError"
      [] x.ty = "int" -> "none"
      [] OTHER -> "TypeError"

\* the first exception of a sequence of evaluation steps
RECURSIVE FirstExc(_)
FirstExc(excs) ==
    IF excs = <<>> THEN "none"
    ELSE IF Head(excs) # "none" THEN Head(excs) ELSE FirstExc(Tail(excs))

\* x.get(...): only a mapping has get
GetExc(x) == IF x.ty = "dict" THEN "none" ELSE "AttributeError"

(***************************************************************************)
(* Upstream grid data: the entries of a day's list of the JSON response.   *)
(* The entries vary one field at a time round a complete entry.            *)
(***************************************************************************)
T1 == PyInt(1704100800)
T2 == PyInt(1704104400)

Timed(start, end, info) ==
    PyDict("startTime" :> start @@ "endTime" :> end @@ "program" :> PyDict(info))

News == "title" :> PyStr("News")

GridEntries ==
    { Timed(T1, T2, News @@ "season" :> PyInt(2) @@ "episode" :> PyInt(5)),
      Timed(T1, T2, News @@ "season" :> PyInt(0) @@ "episode" :> PyInt(1)),
      Timed(T1, T2, "title" :> PyStr("")),
      PyDict("startTime" :> T1 @@ "endTime" :> T2),
      PyDict("startTime" :> T1 @@ "program" :> PyDict(News)),
      PyDict("program" :> PyDict(News)),
      PyDict("endTime" :> T2 @@ "program" :> PyDict("title" :> PyStr(""))),
      Timed(PyStr("soon"), T2, News),
      Timed(PyBigInt("1e30"), T2, News),
      PyStr("not a mapping") }

\* the lists of at most n entries
EntryLists(n) == UNION { [1..k -> GridEntries] : k \in 0..n }

(***************************************************************************)
(* scripts/gracenote.py                                                    *)
(***************************************************************************)
\* the body of the try block of process_channel for one entry: the exception
\* it raises ("none": it appends program_entry)
ProcessEntryExc(program) ==
    IF program.ty # "dict" THEN "AttributeError"
    ELSE FirstExc(<< FromTimestampExc(Get(program.v, "startTime")),
                     FromTimestampExc(Get(program.v, "endTime")),
                     GetExc(GetD(program.v, "program", PyDict(<<>>))) >>)

\* program_entry of process_channel
ProgramEntry(program, channel_data) ==
    LET prog_info == GetD(program.v, "program", PyDict(<<>>)).v
        season == Get(prog_info, "season")
        episode == Get(prog_info, "episode")
    IN  [ start |-> PyStr(StrfTime(Get(program.v, "startTime").v)),
          end |-> PyStr(StrfTime(Get(program.v, "endTime").v)),
          channel_id |-> Or(Get(channel_data, "xmltv_id"), Get(channel_data, "site_id")),
          title |-> GetD(prog_info, "title", PyStr("Unknown")),
          episode_title |-> Get(prog_info, "episodeTitle"),
          description |-> Get(prog_info, "shortDesc"),
          season |-> IF ~IsNone(season) THEN season ELSE PyNone,
          episode |-> IF ~IsNone(episode) THEN episode ELSE PyNone,
          rating |-> Get(program.v, "rating"),
          language |-> Get(channel_data, "language") ]

\* the inner loop of process_channel over one date's entries: an entry that
\* raises is skipped ("except Exception ... continue")
RECURSIVE ProcessDatePrograms(_, _)
ProcessDatePrograms(date_programs, channel_data) ==
    IF date_programs = <<>> THEN <<>>
    ELSE LET program == Head(date_programs)
             rest == ProcessDatePrograms(Tail(date_programs), channel_data)
         IN  IF ProcessEntryExc(program) = "none"
             THEN <<ProgramEntry(program, channel_data)>> \o rest
             ELSE rest

\* one iteration of "for date_str in dates" of process_channel: r is what
\* fetch_program_data returned, None or the mapping {date_str: [entries]} (or
\* one without the key)
ProcessDate(r, channel_data) ==
    IF ~Truthy(r) THEN <<>>
    ELSE ProcessDatePrograms(GetD(r.v, "date", PyList(<<>>)).v, channel_data)

(***************************************************************************)
(* XML elements (xml.etree.ElementTree): a tag, the attributes set on it,  *)
(* its text and its children in order.  A document is the sequence of the  *)
(* children of its <tv> root.                                              *)
(***************************************************************************)
Elem(tag, attrs, text, kids) ==
    [tag |-> tag, attrs |-> attrs, text |-> text, kids |-> kids]

NoAttrs == <<>>

\* an element that gets the lang attribute only when lang is truthy
LangElem(tag, lang, text) ==
    Elem(tag, IF Truthy(lang) THEN "lang" :> lang ELSE NoAttrs, text, <<>>)

\* the two episode-num children, the onscreen one first
OnscreenFirst_EpisodeNums(season, episode) ==
    << Elem("episode-num", "system" :> PyStr("onscreen"),
            FStr(<<"S", Text(season), "E", Text(episode)>>), <<>>),
       Elem("episode-num", "system" :> PyStr("xmltv_ns"),
            FStr(<<Text(season), ".", Text(episode), ".0">>), <<>>) >>

\* the two episode-num children
EpisodeNums(season, episode) ==
    << Elem("episode-num", "system" :> PyStr("xmltv_ns"),
            FStr(<<Text(season), ".", Text(episode), ".0">>), <<>>),
       Elem("episode-num", "system" :> PyStr("onscreen"),
            FStr(<<"S", Text(season), "E", Text(episode)>>), <<>>) >>

RatingElems(rating) ==
    IF Truthy(rating)
    THEN << Elem("rating", NoAttrs, PyNone, <<Elem("value", NoAttrs, rating, <<>>)>>) >>
    ELSE <<>>

\* ElementTree's serialiser raises TypeError on an attribute value that is
\* not a str and on a text that is neither None nor a str
RECURSIVE Serializable(_)
Serializable(elems) ==
    \A i \in 1..Len(elems) :
        /\ \A a \in DOMAIN elems[i].attrs : elems[i].attrs[a].ty = "str"
        /\ elems[i].text.ty \in {"None", "str"}
        /\ Serializable(elems[i].kids)

\* gracenote.py create_xmltv: the channel elements
GracenoteChannelElem(channel) ==
    LET channel_id == Or(Get(channel, "xmltv_id"), Get(channel, "site_id"))
    IN  Elem("channel", "id" :> Str(channel_id), PyNone,
             << Elem("display-name", NoAttrs,
                     GetD(channel, "name", PyStr("Unknown")), <<>>) >>)

\* gracenote.py create_xmltv: episode numbers "if available"
GracenoteEpisodeNums(program) ==
    IF ~IsNone(program.season) /\ ~IsNone(program.episode)
    THEN EpisodeNums(program.season, program.episode)
    ELSE <<>>

\* gracenote.py create_xmltv: one programme element
GracenoteProgrammeElem(program) ==
    Elem("programme",
         "start" :> FStr(<<Text(program.start), " +0000">>)
           @@ "stop" :> FStr(<<Text(program.end), " +0000">>)
           @@ "channel" :> Str(program.channel_id),
         PyNone,
         << LangElem("title", program.language, program.title) >>
           \o (IF Truthy(program.episode_title)
               THEN <<LangElem("sub-title", program.language, program.episode_title)>>
               ELSE <<>>)
           \o (IF Truthy(program.description)
               THEN <<LangElem("desc", program.language, program.description)>>
               ELSE <<>>)
           \o GracenoteEpisodeNums(program)
           \o RatingElems(program.rating))

\* create_xmltv emitting the programmes last to first
Reversed_create_xmltv(chans, programs) ==
    [i \in 1..Len(chans) |-> GracenoteChannelElem(chans[i])]
      \o [j \in 1..Len(programs) |->
            GracenoteProgrammeElem(programs[Len(programs) + 1 - j])]

\* gracenote.py create_xmltv: all channels, then all programs
gracenote_create_xmltv(chans, programs) ==
    [i \in 1..Len(chans) |-> GracenoteChannelElem(chans[i])]
      \o [j \in 1..Len(programs) |-> GracenoteProgrammeElem(programs[j])]

(***************************************************************************)
(* scripts/gracenote_to_xmltv.py                                           *)
(***************************************************************************)
\* the keys of the 3 days parse_programs reads: today + 0, 1, 2 days
DateKeys == <<"day0", "day1", "day2">>

\* the exceptions the try block of parse_programs catches
ParseCaught == {"KeyError", "TypeError", "ValueError"}

\* the body of the try block of parse_programs for one entry: the exception
\* it raises ("none": it appends prog)
ParseEntryExc(program) ==
    IF program.ty # "dict" THEN "AttributeError"
    ELSE FirstExc(<< FromTimestampExc(GetD(program.v, "startTime", PyInt(0))),
                     FromTimestampExc(GetD(program.v, "endTime", PyInt(0))),
                     GetExc(GetD(program.v, "program", PyDict(<<>>))) >>)

\* prog of parse_programs
Prog(program, channel) ==
    LET program_info == GetD(program.v, "program", PyDict(<<>>)).v
    IN  [ start |-> PyStr(StrfTime(GetD(program.v, "startTime", PyInt(0)).v)),
          stop |-> PyStr(StrfTime(GetD(program.v, "endTime", PyInt(0)).v)),
          channel_id |-> Or(Get(channel, "xmltv_id"), Get(channel, "site_id")),
          title |-> GetD(program_info, "title", PyStr("")),
          short_desc |-> Get(program_info, "shortDesc"),
          rating |-> Get(program.v, "rating"),
          season |-> Get(program_info, "season"),
          episode |-> Get(program_info, "episode"),
          episode_title |-> Get(program_info, "episodeTitle"),
          lang |-> Get(channel, "lang") ]

\* the loop of parse_programs over one day's entries: a caught exception
\* skips the entry, any other exception leaves the function
RECURSIVE ParseDayPrograms(_, _)
ParseDayPrograms(day_programs, channel) ==
    IF day_programs = <<>> THEN [exc |-> "none", programs |-> <<>>]
    ELSE LET program == Head(day_programs)
             e == ParseEntryExc(program)
             rest == ParseDayPrograms(Tail(day_programs), channel)
         IN  IF e = "none"
             THEN [exc |-> rest.exc,
                   programs |-> <<Prog(program, channel)>> \o rest.programs]
             ELSE IF e \in ParseCaught THEN rest
             ELSE [exc |-> e, programs |-> <<>>]

\* parse_programs from the day-th date key on
RECURSIVE ParseDays(_, _, _)
ParseDays(program_data_, channel, day) ==
    IF day > Len(DateKeys) THEN [exc |-> "none", programs |-> <<>>]
    ELSE LET here == IF Truthy(program_data_) /\ DateKeys[day] \in DOMAIN program_data_.v
                     THEN ParseDayPrograms(program_data_.v[DateKeys[day]].v, channel)
                     ELSE [exc |-> "none", programs |-> <<>>]
             rest == ParseDays(program_data_, channel, day + 1)
         IN  IF here.exc # "none" THEN here
             ELSE [exc |-> rest.exc, programs |-> here.programs \o rest.programs]

g2x_parse_programs(program_data_, channel) == ParseDays(program_data_, channel, 1)

\* create_xmltv: the channel elements; a channel without an id is skipped
RECURSIVE G2XChannelElems(_)
G2XChannelElems(chans) ==
    IF chans = <<>> THEN <<>>
    ELSE LET channel == Head(chans)
             channel_id == Or(Get(channel, "xmltv_id"), Get(channel, "site_id"))
         IN  (IF ~Truthy(channel_id) THEN <<>>
              ELSE << Elem("channel", "id" :> channel_id, PyNone,
                           << Elem("display-name", NoAttrs,
                                   GetD(channel, "name", PyStr("")), <<>>) >>) >>)
             \o G2XChannelElems(Tail(chans))

\* create_xmltv: episode numbers when season and episode are both truthy
G2XEpisodeNums(program) ==
    IF Truthy(program.season) /\ Truthy(program.episode)
    THEN EpisodeNums(program.season, program.episode)
    ELSE <<>>

\* create_xmltv: one programme element
G2XProgrammeElem(program) ==
    Elem("programme",
         "start" :> FStr(<<Text(program.start), " +0000">>)
           @@ "stop" :> FStr(<<Text(program.stop), " +0000">>)
           @@ "channel" :> program.channel_id,
         PyNone,
         << LangElem("title", program.lang, program.title) >>
           \o (IF Truthy(program.episode_title)
               THEN <<LangElem("sub-title", program.lang, program.episode_title)>>
               ELSE <<>>)
           \o (IF Truthy(program.short_desc)
               THEN <<LangElem("desc", program.lang, program.short_desc)>>
               ELSE <<>>)
           \o G2XEpisodeNums(program)
           \o RatingElems(program.rating))

\* the concatenation of a sequence of sequences
RECURSIVE Flatten(_)
Flatten(ss) == IF ss = <<>> THEN <<>> ELSE Head(ss) \o Flatten(Tail(ss))

\* create_xmltv: the channels, then each channel's programs in turn
g2x_create_xmltv(chans, programs) ==
    LET flat == Flatten(programs)
    IN  G2XChannelElems(chans)
          \o [j \in 1..Len(flat) |-> G2XProgrammeElem(flat[j])]

(***************************************************************************)
(* service/fuel/main.py: the upstream XML.  A parsed response is its root  *)
(* tag and the root's descendants in document order, each with the index   *)
(* of its parent (0: the root).                                            *)
(***************************************************************************)
Node(tag, parent, attrs, text) ==
    [tag |-> tag, parent |-> parent, attrs |-> attrs, text |-> text]

\* a fragment is a sequence of nodes whose parents are 0 (the fragment hangs
\* below the root) or an earlier node of the fragment
Shift(fragment, base) ==
    [i \in 1..Len(fragment) |->
        [fragment[i] EXCEPT !.parent = IF @ = 0 THEN 0 ELSE @ + base]]

RECURSIVE Nodes(_, _)
Nodes(fragments, base) ==
    IF fragments = <<>> THEN <<>>
    ELSE Shift(Head(fragments), base)
         \o Nodes(Tail(fragments), base + Len(Head(fragments)))

XmlDoc(root, fragments) == [ty |-> "xml", root |-> root, nodes |-> Nodes(fragments, 0)]

Leaf(tag, parent, text) == Node(tag, parent, NoAttrs, PyStr(text))

XmlFragments ==
    { \* <programme start stop><title>News</title><desc>Daily</desc></programme>
      << Node("programme", 0, "start" :> PyStr("20240101120000 +0000")
                                @@ "stop" :> PyStr("20240101130000 +0000"), PyNone),
         Leaf("title", 1, "News"), Leaf("desc", 1, "Daily") >>,
      \* <programme start><title> Late </title><description>Talk</description></programme>
      << Node("programme", 0, "start" :> PyStr("20240101130000 +0000"), PyNone),
         Leaf("title", 1, " Late "), Leaf("description", 1, "Talk") >>,
      \* <programme stop><title>   </title></programme>
      << Node("programme", 0, "stop" :> PyStr("20240101130000 +0000"), PyNone),
         Leaf("title", 1, "   ") >>,
      \* <programme/>
      << Node("programme", 0, NoAttrs, PyNone) >>,
      \* <item><title>Clip</title><description>Short</description><pubDate>..</pubDate></item>
      << Node("item", 0, NoAttrs, PyNone),
         Leaf("title", 1, "Clip"), Leaf("description", 1, "Short"),
         Leaf("pubDate", 1, "Mon, 01 Jan 2024 12:00:00 GMT") >>,
      \* <channel><title>Fuel TV</title><item><title>Reel</title></item></channel>
      << Node("channel", 0, NoAttrs, PyNone), Leaf("title", 1, "Fuel TV"),
         Node("item", 1, NoAttrs, PyNone), Leaf("title", 3, "Reel") >>,
      \* <show begin end><name>Surf</name><desc>Waves</desc></show>
      << Node("show", 0, "begin" :> PyStr("20240101140000 +0000")
                          @@ "end" :> PyStr("20240101150000 +0000"), PyNone),
         Leaf("name", 1, "Surf"), Leaf("desc", 1, "Waves") >>,
      \* <tvprogram start><desc>Untitled</desc></tvprogram>
      << Node("tvprogram", 0, "start" :> PyStr("20240101150000 +0000"), PyNone),
         Leaf("desc", 1, "Untitled") >>,
      \* <title>Root title</title>
      << Leaf("title", 0, "Root title") >> }

FragmentLists(n) == UNION { [1..k -> XmlFragments] : k \in 0..n }

\* the root tags other than the XMLTV one
OtherRoots == {"programme", "show"}

\* str.strip() on the texts of the responses
Strip(s) ==
    CASE s = " Late " -> "Late"
      [] s = "   " -> ""
      [] OTHER -> s

\* tag.endswith(suffix) on the tags of the responses
EndsWith(tag, suffix) ==
    CASE suffix = "program" -> tag \in {"program", "tvprogram"}
      [] suffix = "show" -> tag \in {"show"}
      [] suffix = "title" -> tag \in {"title", "sub-title"}
      [] suffix = "name" -> tag \in {"name", "display-name"}
      [] suffix = "desc" -> tag \in {"desc"}
      [] suffix = "description" -> tag \in {"description"}
      [] OTHER -> FALSE

\* the positions of the elements below the root, in document order
Positions(xml) == [i \in 1..Len(xml.nodes) |-> i]

\* xml_root.findall('.//tag'): the descendants of the root with the tag, in
\* document order; the root itself is never among them
FindAll(xml, tag) ==
    LET Test(i) == xml.nodes[i].tag = tag
    IN  SelectSeq(Positions(xml), Test)

\* elem.find(tag): the first child of node p (0: the root) with the tag, 0 for None
Find(xml, p, tag) ==
    LET Test(i) == xml.nodes[i].parent = p /\ xml.nodes[i].tag = tag
        found == SelectSeq(Positions(xml), Test)
    IN  IF found = <<>> THEN 0 ELSE Head(found)

\* list(elem): the children of node p in order
Children(xml, p) ==
    LET Test(i) == xml.nodes[i].parent = p
    IN  SelectSeq(Positions(xml), Test)

\* "elem.text.strip() if elem is not None and elem.text else old"
TextOr(xml, i, old) ==
    IF i # 0 /\ Truthy(xml.nodes[i].text)
    THEN PyStr(Strip(xml.nodes[i].text.v))
    ELSE old

(***************************************************************************)
(* service/fuel/main.py: the parsers and the builder.                      *)
(***************************************************************************)
\* parse_channel_data: display_name
parse_channel_data(xml) ==
    LET direct == Find(xml, 0, "channel")
        anywhere == FindAll(xml, "channel")
        channel_elem == IF direct # 0 THEN direct
                        ELSE IF anywhere # <<>> THEN Head(anywhere) ELSE 0
        dn == IF channel_elem = 0 THEN 0 ELSE Find(xml, channel_elem, "display-name")
        display_name_elem == IF channel_elem = 0 THEN 0
                             ELSE IF dn # 0 THEN dn
                             ELSE Find(xml, channel_elem, "title")
    IN  [display_name |-> TextOr(xml, display_name_elem, PyStr(""))]

AttrOr(node, name, default) == GetD(node.attrs, name, default)

\* Method 1 putting the zone suffix on the start and stop it reads
Rezoned_ProgrammeData(xml, prog) ==
    LET desc == Find(xml, prog, "desc")
        desc_elem == IF desc # 0 THEN desc ELSE Find(xml, prog, "description")
        start == AttrOr(xml.nodes[prog], "start", PyStr(""))
        stop == AttrOr(xml.nodes[prog], "stop", PyStr(""))
    IN  [ start |-> IF Truthy(start) THEN FStr(<<start.v, " +0000">>) ELSE start,
          stop |-> IF Truthy(stop) THEN FStr(<<stop.v, " +0000">>) ELSE stop,
          title |-> TextOr(xml, Find(xml, prog, "title"), PyStr("")),
          desc |-> TextOr(xml, desc_elem, PyStr("")) ]

\* Method 1: the record of one programme element
ProgrammeData(xml, prog) ==
    LET desc == Find(xml, prog, "desc")
        desc_elem == IF desc # 0 THEN desc ELSE Find(xml, prog, "description")
    IN  [ start |-> AttrOr(xml.nodes[prog], "start", PyStr("")),
          stop |-> AttrOr(xml.nodes[prog], "stop", PyStr("")),
          title |-> TextOr(xml, Find(xml, prog, "title"), PyStr("")),
          desc |-> TextOr(xml, desc_elem, PyStr("")) ]

\* Method 2: the record of one item element
ItemData(xml, item) ==
    [ start |-> TextOr(xml, Find(xml, item, "pubDate"), PyStr("")),
      stop |-> PyStr(""),
      title |-> TextOr(xml, Find(xml, item, "title"), PyStr("")),
      desc |-> TextOr(xml, Find(xml, item, "description"), PyStr("")) ]

\* Method 3: the loop over the children of a candidate, from the record so far
RECURSIVE ScanChildren(_, _, _)
ScanChildren(xml, kids, data) ==
    IF kids = <<>> THEN data
    ELSE LET child == xml.nodes[Head(kids)]
             next ==
               IF EndsWith(child.tag, "title") \/ EndsWith(child.tag, "name")
               THEN (IF Truthy(child.text)
                     THEN [data EXCEPT !.title = PyStr(Strip(child.text.v))]
                     ELSE data)
               ELSE IF EndsWith(child.tag, "desc") \/ EndsWith(child.tag, "description")
               THEN (IF Truthy(child.text)
                     THEN [data EXCEPT !.desc = PyStr(Strip(child.text.v))]
                     ELSE data)
               ELSE data
         IN  ScanChildren(xml, Tail(kids), next)

\* Method 3: the record of the candidate e (0: the root, which has no
\* attributes in the responses modelled)
ShowData(xml, e) ==
    LET attrs == IF e = 0 THEN NoAttrs ELSE xml.nodes[e].attrs
    IN  ScanChildren(xml, Children(xml, e),
          [ start |-> GetD(attrs, "start", GetD(attrs, "begin", PyStr(""))),
            stop |-> GetD(attrs, "stop", GetD(attrs, "end", PyStr(""))),
            title |-> PyStr(""),
            desc |-> PyStr("") ])

\* Method 3: xml_root.iter() is the root, then its descendants
RECURSIVE ScanShows(_, _)
ScanShows(xml, e) ==
    IF e > Len(xml.nodes) THEN <<>>
    ELSE LET tag == IF e = 0 THEN xml.root ELSE xml.nodes[e].tag
             data == ShowData(xml, e)
         IN  (IF (EndsWith(tag, "program") \/ EndsWith(tag, "show")) /\ Truthy(data.title)
              THEN <<data>> ELSE <<>>)
             \o ScanShows(xml, e + 1)

Method1(xml) ==
    LET programme_elements == FindAll(xml, "programme")
    IN  [k \in 1..Len(programme_elements) |-> ProgrammeData(xml, programme_elements[k])]

Method2(xml) ==
    LET item_elements == FindAll(xml, "item")
    IN  [k \in 1..Len(item_elements) |-> ItemData(xml, item_elements[k])]

\* the records of all program-like elements from e on, titled or not
RECURSIVE AllShows(_, _)
AllShows(xml, e) ==
    IF e > Len(xml.nodes) THEN <<>>
    ELSE LET tag == IF e = 0 THEN xml.root ELSE xml.nodes[e].tag
         IN  (IF EndsWith(tag, "program") \/ EndsWith(tag, "show")
              THEN <<ShowData(xml, e)>> ELSE <<>>)
             \o AllShows(xml, e + 1)

\* Method 3 without "if program_data['title']"
Untitled_Method3(xml) == AllShows(xml, 0)

Method3(xml) == ScanShows(xml, 0)

\* parse_programs with the feed-item shape tried before the programme shape
ItemsFirst_parse_programs(xml) ==
    IF Method2(xml) # <<>> THEN Method2(xml)
    ELSE IF Method1(xml) # <<>> THEN Method1(xml)
    ELSE Method3(xml)

\* parse_programs returning a record of the root when no method found anything
RootRecord_parse_programs(xml) ==
    IF Method1(xml) # <<>> THEN Method1(xml)
    ELSE IF Method2(xml) # <<>> THEN Method2(xml)
    ELSE IF Method3(xml) # <<>> THEN Method3(xml)
    ELSE <<ShowData(xml, 0)>>

\* parse_programs falling through to the next method when a method found
\* no record with a title
Richest_parse_programs(xml) ==
    LET AnyTitled(programs) == \E k \in 1..Len(programs) : Truthy(programs[k].title)
    IN  IF AnyTitled(Method1(xml)) THEN Method1(xml)
        ELSE IF AnyTitled(Method2(xml)) THEN Method2(xml)
        ELSE Method3(xml)

\* parse_programs: each method runs only if the ones before it found nothing
fuel_parse_programs(xml) ==
    IF Method1(xml) # <<>> THEN Method1(xml)
    ELSE IF Method2(xml) # <<>> THEN Method2(xml)
    ELSE Method3(xml)

\* create_xmltv_output: the programme elements of one channel
RECURSIVE FuelProgrammeElems(_, _, _)
FuelProgrammeElems(programs, channel_id, language) ==
    IF programs = <<>> THEN <<>>
    ELSE LET program == Head(programs)
             start_time == IF Truthy(program.start) THEN program.start
                           ELSE PyStr("20000101000000")
             stop_time == IF Truthy(program.stop) THEN program.stop
                          ELSE PyStr("20000101010000")
         IN  (IF Truthy(program.title)
              THEN << Elem("programme",
                           "start" :> start_time @@ "stop" :> stop_time
                             @@ "channel" :> channel_id,
                           PyNone,
                           << Elem("title", "lang" :> language, program.title, <<>>) >>
                             \o (IF Truthy(program.desc)
                                 THEN << Elem("desc", "lang" :> language,
                                              program.desc, <<>>) >>
                                 ELSE <<>>)) >>
              ELSE <<>>)
             \o FuelProgrammeElems(Tail(programs), channel_id, language)

\* create_xmltv_output: each channel element is followed by the channel's
\* programme elements
RECURSIVE create_xmltv_output(_)
create_xmltv_output(data) ==
    IF data = <<>> THEN <<>>
    ELSE LET channel_info == Head(data)
         IN  << Elem("channel", "id" :> channel_info.channel_id, PyNone,
                     << Elem("display-name", NoAttrs, channel_info.display_name, <<>>) >>) >>
             \o FuelProgrammeElems(channel_info.programs, channel_info.channel_id,
                                   channel_info.language)
             \o create_xmltv_output(Tail(data))

(***************************************************************************)
(* The inputs of a run.                                                    *)
(***************************************************************************)
Scripts == {"gracenote", "gracenote_to_xmltv", "fuel"}

\* channels.json of gracenote.py
GracenoteChannels ==
    { "xmltv_id" :> PyStr("bbc.uk") @@ "site_id" :> PyStr("101")
        @@ "name" :> PyStr("BBC") @@ "language" :> PyStr("en"),
      "site_id" :> PyStr("5") @@ "name" :> PyStr("Test") @@ "language" :> PyStr("en"),
      "xmltv_id" :> PyStr("") @@ "name" :> PyStr("Nameless") @@ "language" :> PyStr("") }

\* what parse_channels_file makes of the <channel> elements of channels.xml
G2XChannels ==
    { "name" :> PyStr("BBC") @@ "lang" :> PyStr("en")
        @@ "xmltv_id" :> PyStr("bbc.uk") @@ "site_id" :> PyStr("101"),
      "name" :> PyStr("Test") @@ "lang" :> PyNone
        @@ "xmltv_id" :> PyNone @@ "site_id" :> PyStr("5"),
      "name" :> PyStr("") @@ "lang" :> PyStr("en")
        @@ "xmltv_id" :> PyNone @@ "site_id" :> PyNone,
      "name" :> PyStr("Blank") @@ "lang" :> PyStr("en")
        @@ "xmltv_id" :> PyStr("") @@ "site_id" :> PyStr("") }

\* channels.json of service/fuel
FuelChannels ==
    { "channel_id" :> PyStr("5") @@ "language" :> PyStr(""),
      "channel_id" :> PyStr("7"),
      "language" :> PyStr("fr") }

ChannelsOf(s) ==
    CASE s = "gracenote" -> GracenoteChannels
      [] s = "gracenote_to_xmltv" -> G2XChannels
      [] s = "fuel" -> FuelChannels

\* gracenote.py main: dates has 3 entries
NumDates == 3

\* what fetch_program_data returns for one date with at most b entries:
\* None, a mapping without the date, or a mapping with the date's list
DateResponses(b) ==
    { PyNone, PyDict("other" :> PyList(<<>>)) }
      \cup { PyDict("date" :> PyList(l)) : l \in EntryLists(b) }

\* the entries a response for one date carries
EntriesIn(r) == IF Truthy(r) /\ "date" \in DOMAIN r.v THEN r.v["date"].v ELSE <<>>

\* the mappings {date_key: list} over the first k date keys with b entries
\* in all, each key absent or with a list of one entry or more
RECURSIVE DayMaps(_, _)
DayMaps(k, b) ==
    IF k = 0 THEN { <<>> }
    ELSE DayMaps(k - 1, b)
         \cup UNION { { m @@ (DateKeys[k] :> PyList(l)) : m \in DayMaps(k - 1, b - Len(l)) } :
                      l \in EntryLists(b) \ { <<>> } }

\* the mapping of a day on which nothing is broadcast
QuietDays == [k \in {DateKeys[i] : i \in 1..Len(DateKeys)} |-> PyList(<<>>)]

\* what fetch_programs returns: None or the mapping
GridResponses(b) ==
    { PyNone, PyDict(QuietDays) } \cup { PyDict(m) : m \in DayMaps(Len(DateKeys), b) }

\* the entries a response carries, in the order of the date keys
RECURSIVE DayEntries(_, _)
DayEntries(m, k) ==
    IF k > Len(DateKeys) THEN <<>>
    ELSE (IF DateKeys[k] \in DOMAIN m THEN m[DateKeys[k]].v ELSE <<>>) \o DayEntries(m, k + 1)

GridEntriesIn(r) == IF r.ty = "dict" THEN DayEntries(r.v, 1) ELSE <<>>

\* the inputs a step may receive when b more entries may come
DateResponsesLeft == [b \in 0..MaxEntries |-> DateResponses(b)]
GridResponsesLeft == [b \in 0..MaxEntries |-> GridResponses(b)]
FragmentListsLeft == [b \in 0..MaxEntries |-> FragmentLists(b)]

(***************************************************************************)
(* The runs.  pc: "loop" in main's channel loop (idx: the channel to       *)
(* process), "build" after it, "done" once the document is written,        *)
(* "nodata" when fuel finds nothing to write, "crashed" when an exception  *)
(* ended the run (error: the exception and the function that raised it).   *)
(* upstream records the entries received so far, in order, and fetched     *)
(* the fetches made so far: the channel and whether a response came.       *)
(***************************************************************************)
NoError == [exc |-> "none", raised_in |-> "none"]
Raised(exc, function) == [exc |-> exc, raised_in |-> function]

Fetch(channel, ok) == [channel |-> channel, ok |-> ok]

Init ==
    /\ script \in Scripts
    /\ channels \in UNION { [1..n -> ChannelsOf(script)] : n \in 0..MaxChannels }
    /\ pc = IF channels = <<>> THEN "build" ELSE "loop"
    /\ idx = 1
    /\ all_programs = <<>>
    /\ all_channels_data = <<>>
    /\ program_data = PyNone
    /\ doc = <<>>
    /\ error = NoError
    /\ upstream = <<>>
    /\ fetched = <<>>
    /\ date = 1
    /\ channel_programs = <<>>

InLoop(s) == script = s /\ pc = "loop" /\ idx <= Len(channels)

Advance ==
    /\ idx' = idx + 1
    /\ pc' = IF idx = Len(channels) THEN "build" ELSE "loop"

\* gracenote.py process_channel, one iteration of "for date_str in dates";
\* after the last date main extends all_programs and goes to the next channel
GracenoteDate ==
    /\ InLoop("gracenote")
    /\ \E r \in DateResponsesLeft[MaxEntries - Len(upstream)] :
          /\ program_data' = r
          /\ upstream' = upstream \o EntriesIn(r)
          /\ fetched' = Append(fetched, Fetch(idx, ~IsNone(r)))
          /\ IF date < NumDates
             THEN /\ channel_programs' = channel_programs \o ProcessDate(r, channels[idx])
                  /\ date' = date + 1
                  /\ UNCHANGED <<all_programs, idx, pc>>
             ELSE /\ all_programs' = all_programs \o channel_programs
                                       \o ProcessDate(r, channels[idx])
                  /\ channel_programs' = <<>>
                  /\ date' = 1
                  /\ Advance
    /\ UNCHANGED <<script, channels, all_channels_data, doc, error>>

\* gracenote.py main: create_xmltv and the write; main's "except Exception"
\* ends the run when the serialiser raises
GracenoteBuild ==
    /\ script = "gracenote" /\ pc = "build"
    /\ LET xml == gracenote_create_xmltv(channels, all_programs)
       IN  IF Serializable(xml)
           THEN doc' = xml /\ pc' = "done" /\ error' = error
           ELSE doc' = doc /\ pc' = "crashed" /\ error' = Raised("TypeError", "tostring")
    /\ UNCHANGED <<script, channels, idx, all_programs, all_channels_data,
                   program_data, upstream, fetched, date, channel_programs>>

\* main forgetting the channel whose fetch gave nothing
SkipNoPrograms(programs) == programs

\* main: "all_programs.append([])" for the channel whose fetch gave nothing
AppendNoPrograms(programs) == Append(programs, <<>>)

\* gracenote_to_xmltv.py main, one iteration of "for i, channel in enumerate(channels, 1)"
G2XChannel ==
    /\ InLoop("gracenote_to_xmltv")
    /\ \E r \in GridResponsesLeft[MaxEntries - Len(upstream)] :
          LET parsed == g2x_parse_programs(r, channels[idx])
          IN  /\ program_data' = r
              /\ upstream' = upstream \o GridEntriesIn(r)
              /\ fetched' = Append(fetched, Fetch(idx, ~IsNone(r)))
              /\ IF ~Truthy(r)
                 THEN /\ all_programs' = AppendNoPrograms(all_programs)
                      /\ Advance
                      /\ error' = error
                 ELSE IF parsed.exc = "none"
                 THEN /\ all_programs' = Append(all_programs, parsed.programs)
                      /\ Advance
                      /\ error' = error
                 ELSE /\ all_programs' = all_programs
                      /\ idx' = idx
                      /\ pc' = "crashed"
                      /\ error' = Raised(parsed.exc, "parse_programs")
    /\ UNCHANGED <<script, channels, all_channels_data, doc, date, channel_programs>>

\* gracenote_to_xmltv.py main: create_xmltv and the write
G2XBuild ==
    /\ script = "gracenote_to_xmltv" /\ pc = "build"
    /\ LET xml == g2x_create_xmltv(channels, all_programs)
       IN  IF Serializable(xml)
           THEN doc' = xml /\ pc' = "done" /\ error' = error
           ELSE doc' = doc /\ pc' = "crashed" /\ error' = Raised("TypeError", "tostring")
    /\ UNCHANGED <<script, channels, idx, all_programs, all_channels_data,
                   program_data, upstream, fetched, date, channel_programs>>

\* fuel main: the entry appended when fetch_epg_data returned None
FuelFailedEntry(channel_id, language) ==
    [ channel_id |-> channel_id,
      display_name |-> FStr(<<"Channel ", Text(channel_id)>>),
      language |-> language,
      programs |-> <<>> ]

\* fuel main: the entry appended for a parsed response
FuelEntry(channel_id, language, xml) ==
    LET display_name == parse_channel_data(xml).display_name
    IN  [ channel_id |-> channel_id,
          display_name |-> IF ~Truthy(display_name)
                           THEN FStr(<<"Channel ", Text(channel_id)>>)
                           ELSE display_name,
          language |-> language,
          programs |-> fuel_parse_programs(xml) ]

\* fuel main, one iteration of "for idx, channel_info in enumerate(channels_data, 1)"
FuelChannel ==
    /\ InLoop("fuel")
    /\ LET channel_id == Get(channels[idx], "channel_id")
           language == GetD(channels[idx], "language", PyStr("en"))
       IN  IF ~Truthy(channel_id)
           THEN UNCHANGED <<all_channels_data, program_data, upstream, fetched>>
           ELSE \E ok \in BOOLEAN :
                  IF ~ok
                  THEN /\ program_data' = PyNone
                       /\ upstream' = upstream
                       /\ fetched' = Append(fetched, Fetch(idx, FALSE))
                       /\ all_channels_data' =
                            Append(all_channels_data, FuelFailedEntry(channel_id, language))
                  ELSE \E root \in {"tv"} \cup OtherRoots :
                       \E fs \in FragmentListsLeft[IF root = "tv" THEN MaxEntries - Len(upstream)
                                                   ELSE IF MaxEntries - Len(upstream) > 1 THEN 1
                                                   ELSE MaxEntries - Len(upstream)] :
                          /\ program_data' = XmlDoc(root, fs)
                          /\ upstream' = upstream \o fs
                          /\ fetched' = Append(fetched, Fetch(idx, TRUE))
                          /\ all_channels_data' =
                               Append(all_channels_data,
                                      FuelEntry(channel_id, language, XmlDoc(root, fs)))
    /\ Advance
    /\ UNCHANGED <<script, channels, all_programs, doc, error, date, channel_programs>>

\* fuel main: create_xmltv_output and the write, when there is data
FuelBuild ==
    /\ script = "fuel" /\ pc = "build"
    /\ LET xml == create_xmltv_output(all_channels_data)
       IN  IF all_channels_data = <<>>
           THEN doc' = doc /\ pc' = "nodata" /\ error' = error
           ELSE IF Serializable(xml)
           THEN doc' = xml /\ pc' = "done" /\ error' = error
           ELSE doc' = doc /\ pc' = "crashed" /\ error' = Raised("TypeError", "tostring")
    /\ UNCHANGED <<script, channels, idx, all_programs, all_channels_data,
                   program_data, upstream, fetched, date, channel_programs>>

Next ==
    \/ GracenoteDate
    \/ GracenoteBuild
    \/ G2XChannel
    \/ G2XBuild
    \/ FuelChannel
    \/ FuelBuild

Spec == Init /\ [][Next]_vars

\* the runs of service/fuel/main.py alone
InitFuel == Init /\ script = "fuel"
NextFuel == FuelChannel \/ FuelBuild
SpecFuel == InitFuel /\ [][NextFuel]_vars

(***************************************************************************)
(* Properties.                                                             *)
(***************************************************************************)
IsProgramme(e) == e.tag = "programme"
IsChannel(e) == e.tag = "channel"
ProgrammesOf(d) == SelectSeq(d, IsProgramme)
ChannelElemsOf(d) == SelectSeq(d, IsChannel)
GridScripts == {"gracenote", "gracenote_to_xmltv"}

\* the children of element e with the tag
KidsOf(e, tag) == { k \in 1..Len(e.kids) : e.kids[k].tag = tag }

\* the programs of all channels handed to fuel's builder, in order
RECURSIVE FuelPrograms(_)
FuelPrograms(data) ==
    IF data = <<>> THEN <<>> ELSE Head(data).programs \o FuelPrograms(Tail(data))

\* the programs handed to the builder, in order
BuiltPrograms ==
    CASE script = "gracenote" -> all_programs
      [] script = "gracenote_to_xmltv" -> Flatten(all_programs)
      [] script = "fuel" -> FuelPrograms(all_channels_data)

\* C1: in every document written, by any of the three scripts, every channel
\* element precedes every programme element.
C1_ChannelsPrecedeProgrammes ==
    pc = "done" =>
        \A i, j \in 1..Len(doc) :
            (IsProgramme(doc[i]) /\ IsChannel(doc[j])) => j < i

\* the response fuel parsed last, and the programs it got from it
FuelParsed == script = "fuel" /\ program_data.ty = "xml" /\ all_channels_data # <<>>
LastPrograms == all_channels_data[Len(all_channels_data)].programs

\* the elements below the root of a response that have the tag
TaggedNodes(xml, tag) == { i \in 1..Len(xml.nodes) : xml.nodes[i].tag = tag }
HasTag(xml, tag) == xml.root = tag \/ TaggedNodes(xml, tag) # {}

\* the records of the item elements of a response
ItemRecords(xml) == { ItemData(xml, i) : i \in TaggedNodes(xml, "item") }

\* the k-th smallest member of a set of numbers
RECURSIVE Nth(_, _)
Nth(S, k) ==
    LET m == CHOOSE x \in S : \A y \in S : x <= y
    IN  IF k = 1 THEN m ELSE Nth(S \ {m}, k - 1)

\* programs holds one record per programme element below the root, in
\* document order, and no record of an item element
OnlyProgrammeRecords(xml, programs) ==
    /\ Len(programs) = Cardinality(TaggedNodes(xml, "programme"))
    /\ \A k \in 1..Len(programs) :
          /\ programs[k] = ProgrammeData(xml, Nth(TaggedNodes(xml, "programme"), k))
          /\ programs[k] \notin ItemRecords(xml)

\* C2 as stated: whenever a response holds programme elements and item
\* elements, anywhere in the tree, parse_programs returns one record per
\* programme element and none of an item.
C2_ShapePriorityAnywhere ==
    (FuelParsed /\ HasTag(program_data, "programme") /\ HasTag(program_data, "item"))
        => /\ OnlyProgrammeRecords(program_data, LastPrograms)
           /\ LastPrograms # <<>>

\* C2 amended: whenever a response holds a programme element below its root
\* (and item elements or not), parse_programs returns exactly one record per
\* programme element below the root, in document order, and no record of an
\* item element.
C2_ShapePriority ==
    (FuelParsed /\ TaggedNodes(program_data, "programme") # {})
        => /\ OnlyProgrammeRecords(program_data, LastPrograms)
           /\ LastPrograms # <<>>

\* C2's case: a response with a programme and an item below the root was parsed
C2_Witness ==
    /\ FuelParsed
    /\ TaggedNodes(program_data, "programme") # {}
    /\ TaggedNodes(program_data, "item") # {}
    /\ Len(LastPrograms) = 1

\* the programme elements of the document with an episode-num child
HasEpisodeNum(e) == KidsOf(e, "episode-num") # {}

\* C3: in the grid pipeline (both scripts) a programme carries episode-num
\* elements only when season and episode of its program are both truthy; a
\* program with season 0 and episode 1 gets none.
C3_EpisodeNumOnlyWhenTruthy ==
    (pc = "done" /\ script \in GridScripts) =>
        \A j \in 1..Len(BuiltPrograms) :
            HasEpisodeNum(ProgrammesOf(doc)[j])
                => Truthy(BuiltPrograms[j].season) /\ Truthy(BuiltPrograms[j].episode)

\* the title children of a programme element
TitleTexts(e) == { e.kids[k].text : k \in KidsOf(e, "title") }

\* C4: every programme of a written document, by any script, has a title
\* that is neither missing, null nor empty (an upstream entry without a usable
\* title gets "Unknown" or a placeholder).
C4_TitleNeverEmpty ==
    pc = "done" =>
        \A j \in 1..Len(ProgrammesOf(doc)) :
            /\ TitleTexts(ProgrammesOf(doc)[j]) # {}
            /\ \A t \in TitleTexts(ProgrammesOf(doc)[j]) : IsStr(t) /\ Truthy(t)

\* the text of a timestamp attribute up to its zone suffix
StampText(x) == IF "parts" \in DOMAIN x THEN x.parts[1] ELSE x.v

\* the instant of a timestamp text, in minutes since the epoch (UTC)
Minutes(stamp) ==
    CASE stamp = "19700101000000" -> 0
      [] stamp = "19700101010000" -> 60
      [] stamp = "20000101000000" -> 15778080
      [] stamp = "20000101010000" -> 15778140
      [] stamp = "20240101092000" -> 28401680
      [] stamp = "20240101102000" -> 28401740
      [] stamp = "20240101120000 +0000" -> 28401840
      [] stamp = "Mon, 01 Jan 2024 12:00:00 GMT" -> 28401840
      [] stamp = "20240101130000 +0000" -> 28401900
      [] stamp = "20240101140000 +0000" -> 28401960
      [] stamp = "20240101150000 +0000" -> 28402020

Stamps ==
    { "19700101000000", "19700101010000", "20000101000000", "20000101010000",
      "20240101092000", "20240101102000", "20240101120000 +0000",
      "Mon, 01 Jan 2024 12:00:00 GMT", "20240101130000 +0000",
      "20240101140000 +0000", "20240101150000 +0000" }

\* C5: every programme of a written document, by any script, has
\* start <= stop, also when a default filled a missing start or stop.
C5_StartNotAfterStop ==
    pc = "done" =>
        \A j \in 1..Len(ProgrammesOf(doc)) :
            Minutes(StampText(ProgrammesOf(doc)[j].attrs["start"]))
                <= Minutes(StampText(ProgrammesOf(doc)[j].attrs["stop"]))

\* a timestamp of a grid entry that is absent or a number in range
AbsentOrTime(entry, key) ==
    key \notin DOMAIN entry.v \/ FromTimestampExc(entry.v[key]) = "none"

\* the grid entries that are program candidates but for missing timestamps
IsGridCandidate(entry) ==
    /\ entry.ty = "dict"
    /\ AbsentOrTime(entry, "startTime")
    /\ AbsentOrTime(entry, "endTime")
    /\ GetD(entry.v, "program", PyDict(<<>>)).ty = "dict"

\* the records fuel's builder admits
IsFuelCandidate(program) == Truthy(program.title)

\* the candidates of a run, in order, with what each lacks
Candidates ==
    IF script = "fuel"
    THEN LET admitted == SelectSeq(BuiltPrograms, IsFuelCandidate)
         IN  [j \in 1..Len(admitted) |->
                [no_start |-> ~Truthy(admitted[j].start),
                 no_stop |-> ~Truthy(admitted[j].stop)]]
    ELSE LET admitted == SelectSeq(upstream, IsGridCandidate)
         IN  [j \in 1..Len(admitted) |->
                [no_start |-> "startTime" \notin DOMAIN admitted[j].v,
                 no_stop |-> "endTime" \notin DOMAIN admitted[j].v]]

\* C6: no candidate is left out because its start or stop is missing: each is
\* a programme of the written document, and a missing start/stop is replaced
\* by the start/stop of one fixed pair on the epoch-zero day, an hour apart.
C6_MissingTimesGetSentinel ==
    pc = "done" =>
        \E s0, s1 \in Stamps :
            /\ Minutes(s0) < 1440
            /\ Minutes(s1) = Minutes(s0) + 60
            /\ Len(ProgrammesOf(doc)) = Len(Candidates)
            /\ \A j \in 1..Len(Candidates) :
                  /\ Candidates[j].no_start
                       => StampText(ProgrammesOf(doc)[j].attrs["start"]) = s0
                  /\ Candidates[j].no_stop
                       => StampText(ProgrammesOf(doc)[j].attrs["stop"]) = s1

\* the channels of fuel's channels.json that have a channel_id, up to the n-th
FuelFetchable(n) == { i \in 1..n : Truthy(Get(channels[i], "channel_id")) }

\* the run is in main and no exception has ended it
Running == pc \in {"loop", "build", "done", "nodata"}
LoopOver == pc \in {"build", "done", "nodata"}

\* C7: a failed fetch does not stop the run.  Whatever the fetches give, each
\* channel in turn (in fuel: each with a channel_id) is fetched; a run that an
\* exception ended was not ended by a failed fetch; the channel of a failed
\* fetch contributes an empty program list (gracenote_to_xmltv.py) or a
\* placeholder record without programs (fuel); and the document is built from
\* the records of all these channels.
C7_FetchFailureIsolated ==
    /\ script = "gracenote_to_xmltv" =>
          /\ \A k \in 1..Len(fetched) : fetched[k].channel = k
          /\ Running => /\ Len(fetched) = idx - 1
                        /\ Len(all_programs) = Len(fetched)
                        /\ \A k \in 1..Len(fetched) :
                              ~fetched[k].ok => all_programs[k] = <<>>
          /\ LoopOver => Len(fetched) = Len(channels)
          /\ (pc = "crashed" /\ error.raised_in = "parse_programs")
                => fetched[Len(fetched)].ok
          /\ pc = "done" => Len(ProgrammesOf(doc)) = Len(Flatten(all_programs))
    /\ script = "fuel" =>
          /\ Running
          /\ Len(fetched) = Cardinality(FuelFetchable(idx - 1))
          /\ \A k \in 1..Len(fetched) : fetched[k].channel = Nth(FuelFetchable(idx - 1), k)
          /\ Len(all_channels_data) = Len(fetched)
          /\ \A k \in 1..Len(fetched) :
                /\ all_channels_data[k].channel_id = channels[fetched[k].channel]["channel_id"]
                /\ ~fetched[k].ok =>
                      /\ all_channels_data[k].programs = <<>>
                      /\ all_channels_data[k].display_name
                           = FStr(<<"Channel ", all_channels_data[k].channel_id.v>>)
          /\ LoopOver => idx = Len(channels) + 1
          /\ pc = "done" =>
                /\ Len(ChannelElemsOf(doc)) = Len(all_channels_data)
                /\ \A k \in 1..Len(all_channels_data) :
                      ChannelElemsOf(doc)[k].attrs["id"] = all_channels_data[k].channel_id
    /\ script = "gracenote" =>
          /\ Running
          /\ Len(fetched) = (idx - 1) * NumDates + (date - 1)

\* C7's case: the fetch of the first of two channels failed, the second
\* channel was fetched and gave a programme, and the document was written
C7_Witness ==
    /\ script \in {"fuel", "gracenote_to_xmltv"}
    /\ pc = "done"
    /\ Len(fetched) = 2
    /\ ~fetched[1].ok /\ fetched[2].ok
    /\ Len(ChannelElemsOf(doc)) = 2
    /\ ProgrammesOf(doc) # <<>>

\* a grid entry with nothing wrong: a mapping with both timestamps and a
\* mapping (or no) program
IsWellFormed(entry) ==
    /\ IsGridCandidate(entry)
    /\ "startTime" \in DOMAIN entry.v
    /\ "endTime" \in DOMAIN entry.v

\* C8: a malformed entry of a fetched set is skipped alone: no exception
\* leaves the parser, and every well-formed entry of the run is parsed and is
\* a programme of the written document.
C8_MalformedEntrySkippedAlone ==
    /\ error.raised_in # "parse_programs"
    /\ (pc = "done" /\ script \in GridScripts) =>
          Len(ProgrammesOf(doc)) >= Len(SelectSeq(upstream, IsWellFormed))

\* the id a channel of the input resolves to
ResolvedId(channel) ==
    IF script = "fuel" THEN Get(channel, "channel_id")
    ELSE Or(Get(channel, "xmltv_id"), Get(channel, "site_id"))

HasId(channel) == Truthy(ResolvedId(channel))

\* the programs handed to the builder with the channel id of each, in order
RECURSIVE FuelProgramsWithChannel(_)
FuelProgramsWithChannel(data) ==
    IF data = <<>> THEN <<>>
    ELSE [k \in 1..Len(Head(data).programs) |->
            [program |-> Head(data).programs[k], channel_id |-> Head(data).channel_id]]
         \o FuelProgramsWithChannel(Tail(data))

HasTitle(pair) == Truthy(pair.program.title)

\* the text of the title of a programme element
TitleOf(e) == e.kids[1].text

\* C9 as stated: the written document has one channel element per channel and
\* one programme element per program handed to the builder, both in input
\* order, each programme with the start, stop, title and channel of its
\* program.
C9_RoundTrip ==
    /\ (pc = "done" /\ script = "gracenote") =>
          LET programmes == ProgrammesOf(doc)
          IN  /\ Len(ChannelElemsOf(doc)) = Len(channels)
              /\ Len(programmes) = Len(all_programs)
              /\ \A j \in 1..Len(all_programs) :
                    /\ StampText(programmes[j].attrs["start"]) = all_programs[j].start.v
                    /\ StampText(programmes[j].attrs["stop"]) = all_programs[j].end.v
                    /\ TitleOf(programmes[j]) = all_programs[j].title
                    /\ programmes[j].attrs["channel"] = Str(all_programs[j].channel_id)
    /\ (pc = "done" /\ script = "fuel") =>
        LET programs == FuelProgramsWithChannel(all_channels_data)
            programmes == ProgrammesOf(doc)
        IN  /\ Len(ChannelElemsOf(doc)) = Len(all_channels_data)
            /\ Len(programmes) = Len(programs)
            /\ \A j \in 1..Len(programs) :
                  /\ programmes[j].attrs["start"] = programs[j].program.start
                  /\ programmes[j].attrs["stop"] = programs[j].program.stop
                  /\ TitleOf(programmes[j]) = programs[j].program.title
                  /\ programmes[j].attrs["channel"] = programs[j].channel_id

\* C9 amended: the written document has one channel element per channel
\* handed to the builder, in input order (gracenote.py: with the channel's
\* name; fuel: with its channel_id), and one programme element, in input
\* order, per program (gracenote.py) or per program with a non-empty title
\* (fuel); each programme has the title and the channel of its program (in
\* gracenote.py the channel as str() gives it), and as start
\* and stop the program's followed by " +0000" (gracenote.py), or the
\* program's when not empty and else 20000101000000 and 20000101010000 (fuel).
C9_OrderPreserved ==
    /\ (pc = "done" /\ script = "gracenote") =>
          LET programmes == ProgrammesOf(doc)
              elems == ChannelElemsOf(doc)
          IN  /\ Len(elems) = Len(channels)
              /\ \A i \in 1..Len(channels) :
                    /\ doc[i] = elems[i]
                    /\ elems[i].kids[1].text = GetD(channels[i], "name", PyStr("Unknown"))
              /\ Len(programmes) = Len(all_programs)
              /\ \A j \in 1..Len(all_programs) :
                    /\ programmes[j].attrs["start"]
                         = FStr(<<all_programs[j].start.v, " +0000">>)
                    /\ programmes[j].attrs["stop"]
                         = FStr(<<all_programs[j].end.v, " +0000">>)
                    /\ TitleOf(programmes[j]) = all_programs[j].title
                    /\ programmes[j].attrs["channel"] = Str(all_programs[j].channel_id)
    /\ (pc = "done" /\ script = "fuel") =>
          LET programs == SelectSeq(FuelProgramsWithChannel(all_channels_data), HasTitle)
              programmes == ProgrammesOf(doc)
              elems == ChannelElemsOf(doc)
          IN  /\ Len(elems) = Len(all_channels_data)
              /\ \A i \in 1..Len(all_channels_data) :
                    elems[i].attrs["id"] = all_channels_data[i].channel_id
              /\ Len(programmes) = Len(programs)
              /\ \A j \in 1..Len(programs) :
                    /\ programmes[j].attrs["start"]
                         = (IF programs[j].program.start = PyStr("")
                            THEN PyStr("20000101000000") ELSE programs[j].program.start)
                    /\ programmes[j].attrs["stop"]
                         = (IF programs[j].program.stop = PyStr("")
                            THEN PyStr("20000101010000") ELSE programs[j].program.stop)
                    /\ TitleOf(programmes[j]) = programs[j].program.title
                    /\ programmes[j].attrs["channel"] = programs[j].channel_id

\* C9's case: a document of two different channels and two different programmes
C9_Witness ==
    /\ pc = "done"
    /\ script = "gracenote"
    /\ Len(channels) = 2 /\ channels[1] # channels[2]
    /\ Len(all_programs) = 2 /\ all_programs[1] # all_programs[2]
    /\ Len(doc) = 4

\* C10: a channel whose id resolves to empty gets no channel element, in any
\* script; the channel elements of the written document are those of the
\* channels with an id, each with the id xmltv_id, else site_id / channel_id.
C10_NoChannelWithoutId ==
    pc = "done" =>
        LET with_id == SelectSeq(channels, HasId)
            elems == ChannelElemsOf(doc)
        IN  /\ Len(elems) = Len(with_id)
            /\ \A k \in 1..Len(with_id) : elems[k].attrs["id"] = ResolvedId(with_id[k])

\* the elements of a response, the root (0) included, whose tag ends with
\* 'program' or 'show'
ShowCandidates(xml) ==
    { e \in 0..Len(xml.nodes) :
        LET tag == IF e = 0 THEN xml.root ELSE xml.nodes[e].tag
        IN  EndsWith(tag, "program") \/ EndsWith(tag, "show") }

\* the children of element e with a tag ending with 'title' or 'name' and a
\* text that is not blank
TitleLike(xml, e) ==
    { c \in 1..Len(xml.nodes) :
        /\ xml.nodes[c].parent = e
        /\ EndsWith(xml.nodes[c].tag, "title") \/ EndsWith(xml.nodes[c].tag, "name")
        /\ Truthy(xml.nodes[c].text)
        /\ Strip(xml.nodes[c].text.v) # "" }

Titled(xml) == { e \in ShowCandidates(xml) : TitleLike(xml, e) # {} }

\* neither the programme shape nor the item shape matches the response
NoShape12(xml) == TaggedNodes(xml, "programme") = {} /\ TaggedNodes(xml, "item") = {}

\* C11: fuel's parse_programs is total.  For every response that was parsed,
\* the empty one included, it returns a list and no exception ends the run;
\* the list is empty when the response has no programme element and no item
\* element below its root and no element with a tag ending with 'program' or
\* 'show' that has a title.
C11_ParseProgramsTotal ==
    FuelParsed =>
        /\ error = NoError /\ pc # "crashed"
        /\ Len(all_channels_data) = Len(fetched)
        /\ DOMAIN LastPrograms = 1..Len(LastPrograms)
        /\ (NoShape12(program_data) /\ Titled(program_data) = {}) => LastPrograms = <<>>
        /\ program_data.nodes = <<>> => LastPrograms = <<>>

\* C11's case: a response with elements that match none of the three shapes
\* was parsed and gave the empty list
C11_Witness ==
    /\ FuelParsed
    /\ program_data.nodes # <<>>
    /\ NoShape12(program_data)
    /\ ShowCandidates(program_data) # {}
    /\ Titled(program_data) = {}
    /\ LastPrograms = <<>>

\* C12: when the programme and item shapes yield nothing, every returned
\* program is the record of an element whose tag ends with 'program' or
\* 'show' and has the text of one of its non-blank title-like children as its
\* title; a candidate with no such child gives no program, whether it has a
\* description or not.
C12_GenericShapeNeedsTitle ==
    (FuelParsed /\ NoShape12(program_data)) =>
        /\ Len(LastPrograms) <= Cardinality(Titled(program_data))
        /\ \A k \in 1..Len(LastPrograms) :
              /\ Truthy(LastPrograms[k].title)
              /\ \E e \in Titled(program_data) : \E c \in TitleLike(program_data, e) :
                    LastPrograms[k].title = PyStr(Strip(program_data.nodes[c].text.v))

\* C12's case: of two candidates, one with a name and one with a description
\* only, the generic shape returned the first alone
C12_Witness ==
    /\ FuelParsed
    /\ NoShape12(program_data)
    /\ Cardinality(ShowCandidates(program_data)) = 2
    /\ Cardinality(Titled(program_data)) = 1
    /\ \E e \in ShowCandidates(program_data) \ Titled(program_data) :
          Truthy(ShowData(program_data, e).desc)
    /\ Len(LastPrograms) = 1

\* a grid entry with an empty or missing title and no start time
UntitledStartless(entry) ==
    /\ IsGridCandidate(entry)
    /\ "startTime" \notin DOMAIN entry.v
    /\ ~Truthy(GetD(GetD(entry.v, "program", PyDict(<<>>)).v, "title", PyStr("")))

\* the programmes of the document whose title is empty or the default
UntitledProgrammes ==
    { j \in 1..Len(ProgrammesOf(doc)) :
        \E t \in TitleTexts(ProgrammesOf(doc)[j]) : ~Truthy(t) \/ t = PyStr("Unknown") }

\* C13: in both grid scripts an entry with an empty or missing title and no
\* start time is still a programme element of the written document; in fuel
\* a program with an empty title never is.
C13_EmptyTitleAsymmetry ==
    /\ (pc = "done" /\ script \in GridScripts) =>
          Cardinality(UntitledProgrammes) >= Len(SelectSeq(upstream, UntitledStartless))
    /\ (pc = "done" /\ script = "fuel") =>
          /\ Len(ProgrammesOf(doc)) = Len(SelectSeq(BuiltPrograms, IsFuelCandidate))
          /\ \A j \in 1..Len(ProgrammesOf(doc)) :
                \A t \in TitleTexts(ProgrammesOf(doc)[j]) : Truthy(t)

\* the characters of a str value
RECURSIVE Join(_)
Join(parts) == IF parts = <<>> THEN "" ELSE Head(parts) \o Join(Tail(parts))

Rendered(x) == IF "parts" \in DOMAIN x THEN Join(x.parts) ELSE x.v

IsEpisodeNum(e) == e.tag = "episode-num"

\* the system and the text of each episode-num child of a programme, in order
EpisodeNumsOf(e) ==
    LET nums == SelectSeq(e.kids, IsEpisodeNum)
    IN  [k \in 1..Len(nums) |-> <<nums[k].attrs["system"].v, Rendered(nums[k].text)>>]

\* the channel and the entry of the scenario
TestChannel ==
    "site_id" :> PyStr("5") @@ "name" :> PyStr("Test") @@ "language" :> PyStr("en")

NewsS2E5 == Timed(T1, T2, News @@ "season" :> PyInt(2) @@ "episode" :> PyInt(5))

\* C14: gracenote.py, end to end.  The channel with id "5", name "Test" and
\* language "en" with the one entry "News", season 2, episode 5 gives one
\* programme with channel "5", the title "News" and exactly the episode-num
\* entries "2.5.0" (xmltv_ns) and then "S2E5" (onscreen); and every program
\* with truthy season s and episode e gets exactly "s.e.0" and then "SsEe".
C14_GridScenario ==
    (pc = "done" /\ script = "gracenote") =>
        /\ (channels = <<TestChannel>> /\ upstream = <<NewsS2E5>>) =>
              /\ Len(ProgrammesOf(doc)) = 1
              /\ ProgrammesOf(doc)[1].attrs["channel"] = PyStr("5")
              /\ TitleOf(ProgrammesOf(doc)[1]) = PyStr("News")
              /\ EpisodeNumsOf(ProgrammesOf(doc)[1])
                   = << <<"xmltv_ns", "2.5.0">>, <<"onscreen", "S2E5">> >>
        /\ \A j \in 1..Len(all_programs) :
              LET s == all_programs[j].season
                  e == all_programs[j].episode
              IN  (Truthy(s) /\ Truthy(e)) =>
                     EpisodeNumsOf(ProgrammesOf(doc)[j])
                       = << <<"xmltv_ns", Text(s) \o "." \o Text(e) \o ".0">>,
                            <<"onscreen", "S" \o Text(s) \o "E" \o Text(e)>> >>

\* C14's case: the document of the scenario was written
C14_Witness ==
    /\ pc = "done" /\ script = "gracenote"
    /\ channels = <<TestChannel>>
    /\ upstream = <<NewsS2E5>>
    /\ Len(ProgrammesOf(doc)) = 1

\* the language of the channel that owns the j-th programme of the document
OwnerLanguage(j) ==
    CASE script = "gracenote" -> all_programs[j].language
      [] script = "gracenote_to_xmltv" -> Flatten(all_programs)[j].lang
      [] script = "fuel" ->
           LET owner == CHOOSE i \in 1..Len(channels) :
                          Get(channels[i], "channel_id") = ProgrammesOf(doc)[j].attrs["channel"]
           IN  Get(channels[owner], "language")

IsLangTagged(e) == e.tag \in {"title", "sub-title", "desc"}

\* C15: in a written document, by any script, the title, sub-title and desc
\* of a programme carry the lang attribute, with the channel's language, when
\* that language is non-empty, and carry no lang attribute when the channel's
\* language is empty or absent.
C15_LangOnlyWhenNonEmpty ==
    pc = "done" =>
        \A j \in 1..Len(ProgrammesOf(doc)) :
            LET kids == SelectSeq(ProgrammesOf(doc)[j].kids, IsLangTagged)
            IN  \A k \in 1..Len(kids) :
                   IF Truthy(OwnerLanguage(j))
                   THEN "lang" \in DOMAIN kids[k].attrs
                        /\ kids[k].attrs["lang"] = OwnerLanguage(j)
                   ELSE "lang" \notin DOMAIN kids[k].attrs

\* the programme elements below the root of a response, in document order
ProgrammeNodes(xml) ==
    LET IsProgrammeNode(i) == xml.nodes[i].tag = "programme"
    IN  SelectSeq(Positions(xml), IsProgrammeNode)

\* a programme built again from the start and stop of a programme element
Rebuilt(e) ==
    FuelProgrammeElems(<< [ start |-> e.attrs["start"], stop |-> e.attrs["stop"],
                            title |-> TitleOf(e), desc |-> PyStr("") ] >>,
                       e.attrs["channel"], PyStr("en"))[1]

\* C16: in fuel a non-empty start or stop attribute of a programme element
\* of the response is the start / stop of its record unchanged, a non-empty
\* start / stop of a record is the start / stop attribute of its programme
\* in the written document unchanged, and building a programme again from
\* the written start and stop gives the same start and stop.
C16_TimestampPassThrough ==
    /\ (FuelParsed /\ ProgrammeNodes(program_data) # <<>>) =>
          /\ Len(LastPrograms) = Len(ProgrammeNodes(program_data))
          /\ \A k \in 1..Len(LastPrograms) :
                LET attrs == program_data.nodes[ProgrammeNodes(program_data)[k]].attrs
                IN  /\ ("start" \in DOMAIN attrs /\ Truthy(attrs["start"]))
                        => LastPrograms[k].start = attrs["start"]
                    /\ ("stop" \in DOMAIN attrs /\ Truthy(attrs["stop"]))
                        => LastPrograms[k].stop = attrs["stop"]
    /\ (script = "fuel" /\ pc = "done") =>
          LET programs == SelectSeq(FuelProgramsWithChannel(all_channels_data), HasTitle)
          IN  /\ Len(ProgrammesOf(doc)) = Len(programs)
              /\ \A j \in 1..Len(programs) :
                    LET e == ProgrammesOf(doc)[j]
                    IN  /\ Truthy(programs[j].program.start)
                            => e.attrs["start"] = programs[j].program.start
                        /\ Truthy(programs[j].program.stop)
                            => e.attrs["stop"] = programs[j].program.stop
                        /\ Rebuilt(e).attrs["start"] = e.attrs["start"]
                        /\ Rebuilt(e).attrs["stop"] = e.attrs["stop"]

\* C16's case: a programme element with start and stop was read and the
\* document written has a programme with the same start and stop
C16_Witness ==
    /\ FuelParsed /\ pc = "done"
    /\ \E k \in 1..Len(ProgrammeNodes(program_data)) :
          LET attrs == program_data.nodes[ProgrammeNodes(program_data)[k]].attrs
          IN  /\ DOMAIN attrs = {"start", "stop"}
              /\ \E j \in 1..Len(ProgrammesOf(doc)) :
                    /\ ProgrammesOf(doc)[j].attrs["start"] = attrs["start"]
                    /\ ProgrammesOf(doc)[j].attrs["stop"] = attrs["stop"]
                    /\ Truthy(attrs["start"]) /\ Truthy(attrs["stop"])

\* C17: in every written document, by any script, the channel attribute of
\* each programme element is the id attribute of a channel element of the
\* same document.
C17_ProgrammeChannelEmitted ==
    pc = "done" =>
        \A j \in 1..Len(ProgrammesOf(doc)) :
            \E i \in 1..Len(ChannelElemsOf(doc)) :
                ChannelElemsOf(doc)[i].attrs["id"] = ProgrammesOf(doc)[j].attrs["channel"]

\* the programme element e of a response (0: the root) has no title: its
\* first title child is missing or has a blank text
UntitledElement(xml, e) == TextOr(xml, Find(xml, e, "title"), PyStr("")) = PyStr("")

\* the item elements of a response that have a title
TitledItems(xml) == { i \in TaggedNodes(xml, "item") : ~UntitledElement(xml, i) }

\* no program of the response parsed last can become a programme element
NothingToEmit == \A k \in 1..Len(LastPrograms) : ~Truthy(LastPrograms[k].title)

\* C18 as stated: whenever a response holds a programme element, anywhere in
\* the tree, and every programme element has an empty title, the response
\* gives no programme element, whatever titled items it holds.
C18_NoFallbackAnywhere ==
    (/\ FuelParsed
     /\ HasTag(program_data, "programme")
     /\ \A e \in TaggedNodes(program_data, "programme") : UntitledElement(program_data, e)
     /\ program_data.root = "programme" => UntitledElement(program_data, 0))
        => NothingToEmit

\* C18 amended: whenever a response holds a programme element below its
\* root, parse_programs returns one record per such element and tries no
\* other shape; when every one of them has an empty title the response gives
\* no programme element, whatever titled items it holds.
C18_NoFallbackOnEmptyTitles ==
    (FuelParsed /\ TaggedNodes(program_data, "programme") # {}) =>
        /\ Len(LastPrograms) = Cardinality(TaggedNodes(program_data, "programme"))
        /\ (\A e \in TaggedNodes(program_data, "programme") :
               UntitledElement(program_data, e))
              => /\ NothingToEmit
                 /\ (pc = "done" /\ Len(all_channels_data) = 1) => ProgrammesOf(doc) = <<>>

\* C18's case: a response with an untitled programme and a titled item was
\* parsed and the document written has no programme
C18_Witness ==
    /\ FuelParsed /\ pc = "done"
    /\ Len(all_channels_data) = 1
    /\ TaggedNodes(program_data, "programme") # {}
    /\ \A e \in TaggedNodes(program_data, "programme") : UntitledElement(program_data, e)
    /\ TitledItems(program_data) # {}
    /\ ProgrammesOf(doc) = <<>>

====
